---------------------------- MODULE Spec2Model ----------------------------
(***************************************************************************)
(* State-machine model of tedium's batch flow (src/tedium.ts): repository  *)
(* discovery and de-duplication, the rate limiter, the clone fan-out, the  *)
(* analysis, the sequential transform + publish loop with its push budget, *)
(* and the final report.                                                   *)
(*                                                                         *)
(* Repository names are numbered in the order localeCompare gives their    *)
(* directories: RootName stands for 'polymer', ListboxName for             *)
(* 'paper-listbox', the other numbers of 0..MaxName for repositories of    *)
(* the organization that are not excluded.  A descriptor carries, besides  *)
(* its name, the position at which it was fetched (`id`): two fetched      *)
(* objects with the same name are still two objects.                       *)
(*                                                                         *)
(* Code that runs synchronously, or in promise reactions (microtasks) that *)
(* follow one another without a timer or I/O completion in between, is one *)
(* step of the model: nothing else of the program can run in between.      *)
(***************************************************************************)
EXTENDS Integers, Sequences, FiniteSets, TLC

\* ---------------------------------------------------------------- bounds
MaxOrgRepos == 3     \* longest organization listing the remote returns
MaxName     == 4     \* organization listings draw names from 0..MaxName
MaxChanges  == 2     \* --max_changes is drawn from 0..MaxChanges
MaxCalls    == 3     \* SpecRate: number of rateLimit calls
MaxDelay    == 2     \* SpecRate: delays are drawn from 0..MaxDelay
MaxTime     == 4     \* SpecRate: the clock stops ticking here
MaxFullPages == 2    \* SpecDisc: full pages the organization listing delivers

\* ------------------------------------------------------ program constants
per_page   == 100    \* getRepos: page size
RootName   == 2      \* 'polymer', fetched first by getRepos
ListboxName == 1     \* 'paper-listbox', an excluded repository of the organization
CloneDelay == 100    \* rateLimit(100) before a clone
LoopDelay  == 0      \* rateLimit(0) before cleanup
PrDelay    == 5000   \* rateLimit(5000) before a pull request

branchName == "auto-cleanup"

VARIABLES
  pc,             \* position of main/_main
  max_changes,    \* opts.max_changes
  repos,          \* getRepos: descriptors fetched so far, in fetch order
  page,           \* getRepos: next page number
  ghRepos,        \* _main: result of getRepos
  cloneSt,        \* _main: state of the clone promise of each ghRepo
  elements,       \* main: the accumulating ElementRepo array
  cur,            \* _main: index of the element of the current loop iteration
  elementsPushed, \* module-level counter
  pushesDenied,   \* module-level counter
  rlCalls,        \* rateLimit: the chain of promises, one record per call
  now,            \* the clock the timers run on
  allowLog,       \* history: the values pushIsAllowed returned, in call order
  remoteLog,      \* history: the remote calls issued (push, PR create, PR edit)
  started,        \* history: <<dir, step>> for every per-repository step begun
  reported,       \* what reportOnChangesMade printed (<<>> before it ran)
  summary,        \* the summary line _main printed (<<>> before)
  exitCode,       \* -1 while running, 0 after main returned, 1 after process.exit(1)
  fetchLog,       \* history: the organization pages requested (page number, length)
  analyses,       \* history: how many times analyzeRepos was called
  failure         \* history: the step that raised ("none" while none has)

vars == <<pc, max_changes, repos, page, ghRepos, cloneSt, elements, cur,
          elementsPushed, pushesDenied, rlCalls, now, allowLog, remoteLog,
          started, reported, summary, exitCode, fetchLog, analyses, failure>>

discVars   == <<repos, page, ghRepos>>
budgetVars == <<elementsPushed, pushesDenied, allowLog>>
rlVars     == <<rlCalls, now>>
outVars    == <<reported, summary, exitCode>>

Max(a, b) == IF a >= b THEN a ELSE b
Min(a, b) == IF a <= b THEN a ELSE b

\* ------------------------------------------------------------- rate limit
\* The time at which the reaction chained on previousPromise runs: when the
\* previous promise settles (or at the call, if it has settled already).
ThenTimeUnchained(callT, settleT) == callT

ThenTime(callT, settleT) == settleT

PrevResolved(calls) ==
  calls = <<>> \/ calls[Len(calls)].st = "resolved"

\* rateLimit(delay), called at time t:
\*   curr = previousPromise.then(() => new Promise(r => setTimeout(r, delay)))
\* The chain with the new promise appended; previousPromise is its last entry.
rateLimit(calls, t, delay, who) ==
  Append(calls,
      [delay  |-> delay,
       who    |-> who,
       st     |-> IF PrevResolved(calls) THEN "timing" ELSE "chained",
       callT  |-> t,
       startT |-> IF PrevResolved(calls) THEN ThenTime(t, t) ELSE -1,
       doneT  |-> -1])

\* The timer of call k fires (no sooner than `delay` after it was set), curr
\* resolves, and the reaction of the next call in the chain sets its timer.
RLFire(k) ==
  /\ k \in 1..Len(rlCalls)
  /\ rlCalls[k].st = "timing"
  /\ LET t == Max(now, rlCalls[k].startT + rlCalls[k].delay)
     IN /\ now' = t
        /\ rlCalls' = [j \in 1..Len(rlCalls) |->
              IF j = k THEN [rlCalls[j] EXCEPT !.st = "resolved", !.doneT = t]
              ELSE IF j = k + 1 /\ rlCalls[j].st = "chained"
                   THEN [rlCalls[j] EXCEPT !.st = "timing",
                                           !.startT = ThenTime(rlCalls[j].callT, t)]
                   ELSE rlCalls[j]]

\* ---------------------------------------------------------------- getRepos
Desc(name, id) == [name |-> name, id |-> id]

\* the descriptors of a fetched page, appended after `n` earlier ones
PageDescs(names, n) == [i \in 1..Len(names) |-> Desc(names[i], n + i)]

SeenNever(rs, k) == FALSE

\* repoIds.has(repo.name) when the loop of lines 129-135 is at rs[k]: repoIds
\* then holds the name of every earlier entry, kept or skipped
Seen(rs, k) == rs[k].name \in {rs[j].name : j \in 1..(k - 1)}

\* dedupedRepos after the loop: the entries not skipped, in the order of rs
\* (the entry at position k of what was fetched is the one with id k)
Dedup(rs) == SelectSeq(rs, LAMBDA repo : ~Seen(rs, repo.id))

\* --------------------------------------------------------------- elements
Dir(name) == <<"repos", name>>

\* style-guide, test-all, ContributionGuide, polymer, paper-listbox: the first
\* three are not among the names 0..MaxName that the model's listings hold.
excludes == {Dir(1001), Dir(1002), Dir(-1), Dir(RootName), Dir(ListboxName)}

NewElement(gh) ==
  [dir |-> Dir(gh.name), ghRepo |-> gh, analyzer |-> FALSE,
   dirty |-> FALSE, needsReview |-> FALSE,
   pushDenied |-> FALSE, pushFailed |-> FALSE, pushSucceeded |-> FALSE]

\* l.dir.localeCompare(r.dir): names are numbered in that order
DirCompare(l, r) ==
  IF l.dir[2] < r.dir[2] THEN -1 ELSE IF l.dir[2] > r.dir[2] THEN 1 ELSE 0

RECURSIVE Insert(_, _)
Insert(sorted, e) ==
  IF sorted = <<>> THEN <<e>>
  ELSE IF DirCompare(e, sorted[Len(sorted)]) >= 0 THEN Append(sorted, e)
       ELSE Append(Insert(SubSeq(sorted, 1, Len(sorted) - 1), e), sorted[Len(sorted)])

RECURSIVE SortFrom(_, _, _)
SortFrom(es, k, acc) ==
  IF k > Len(es) THEN acc ELSE SortFrom(es, k + 1, Insert(acc, es[k]))

SortByDirNone(es) == es

\* elements.sort((l, r) => l.dir.localeCompare(r.dir))
SortByDir(es) == SortFrom(es, 1, <<>>)

\* ----------------------------------------------------------------- report
RECURSIVE FilterDirsReversed(_, _, _)
FilterDirsReversed(es, k, flag) ==
  IF k > Len(es) THEN <<>>
  ELSE IF es[k][flag] THEN FilterDirsReversed(es, k + 1, flag) \o <<es[k].dir>>
       ELSE FilterDirsReversed(es, k + 1, flag)

RECURSIVE FilterDirs(_, _, _)
FilterDirs(es, k, flag) ==
  IF k > Len(es) THEN <<>>
  ELSE IF es[k][flag] THEN <<es[k].dir>> \o FilterDirs(es, k + 1, flag)
       ELSE FilterDirs(es, k + 1, flag)

Group(message, dirs) ==
  IF dirs = <<>> THEN <<>> ELSE <<[message |-> message, dirs |-> dirs]>>

reportOnChangesMade(es) ==
     Group("Elements that would have been pushed:", FilterDirs(es, 1, "pushDenied"))
  \o Group("Elements pushed successfully:", FilterDirs(es, 1, "pushSucceeded"))
  \o Group("Elements that I tried to push that FAILED:", FilterDirs(es, 1, "pushFailed"))

\* the summary line of _main, lines 451-461
\* (each line is the sequence of its pieces; the four have different lengths)
SummaryLineInverted(pushed, denied, maxc) ==
  IF pushed = 0 /\ denied = 0 THEN <<"No changes needed!">>
  ELSE IF denied = 0 THEN <<"Successfully pushed to ", pushed, " repos.">>
  ELSE IF maxc /= 0
       THEN <<denied, " changes ready to push. Call with --max_changes=N to push them up!">>
       ELSE <<"Successfully pushed to ", pushed, " repos. ", denied, " remain.">>

SummaryLine(pushed, denied, maxc) ==
  IF pushed = 0 /\ denied = 0 THEN <<"No changes needed!">>
  ELSE IF denied = 0 THEN <<"Successfully pushed to ", pushed, " repos.">>
  ELSE IF maxc = 0
       THEN <<denied, " changes ready to push. Call with --max_changes=N to push them up!">>
       ELSE <<"Successfully pushed to ", pushed, " repos. ", denied, " remain.">>


\* ------------------------------------------------------------------- main
Pages == UNION {[1..n -> 0..MaxName] : n \in 0..MaxOrgRepos}

Init ==
  /\ pc = "init"
  /\ max_changes \in 0..MaxChanges
  /\ repos = <<>>
  /\ page = 0
  /\ ghRepos = <<>>
  /\ cloneSt = <<>>
  /\ elements = <<>>
  /\ cur = 0
  /\ elementsPushed = 0
  /\ pushesDenied = 0
  /\ rlCalls = <<>>
  /\ now = 0
  /\ allowLog = <<>>
  /\ remoteLog = <<>>
  /\ started = {}
  /\ reported = <<>>
  /\ summary = <<>>
  /\ exitCode = -1
  /\ fetchLog = <<>>
  /\ analyses = 0
  /\ failure = "none"

CrashReportsNothing(es) ==
  /\ pc' = "exited"
  /\ reported' = <<>>
  /\ exitCode' = 1
  /\ UNCHANGED summary

\* main's catch block: report on what `elements` holds, then process.exit(1)
Crash(es) ==
  /\ pc' = "exited"
  /\ reported' = reportOnChangesMade(es)
  /\ exitCode' = 1
  /\ UNCHANGED summary

\* a step rejects: the rejection carries the step that raised it
Raise(step) == failure' = step

\* rimraf('repos'), mkdirSync('repos'), github.user.get
Prepare ==
  /\ pc = "init"
  /\ \E ok \in BOOLEAN :
       IF ok THEN pc' = "getRoot" /\ UNCHANGED <<outVars, failure>>
             ELSE Crash(elements) /\ Raise("prepare")
  /\ UNCHANGED <<max_changes, fetchLog, analyses, discVars, cloneSt, elements, cur, budgetVars,
                 rlVars, remoteLog, started>>

\* getRepos: github.repos.get({user: 'Polymer', repo: 'polymer'})
GetRoot ==
  /\ pc = "getRoot"
  /\ \E ok \in BOOLEAN :
       IF ok THEN /\ repos' = <<Desc(RootName, 1)>>
                  /\ page' = 0
                  /\ pc' = "getPage"
                  /\ UNCHANGED <<outVars, failure>>
             ELSE Crash(elements) /\ Raise("discovery") /\ UNCHANGED <<repos, page>>
  /\ UNCHANGED <<max_changes, fetchLog, analyses, ghRepos, cloneSt, elements, cur, budgetVars,
                 rlVars, remoteLog, started>>

\* one request of the paging loop: the page number asked for, and the length
\* and names of the page received (length -1 when the request failed)
Fetched(n, resultsPage) ==
  [page |-> page, len |-> n,
   names |-> [i \in 1..Len(resultsPage) |-> resultsPage[i].name]]

GetPagePartial(pages) ==
  /\ pc = "getPage"
  /\ \/ \E names \in pages :
          LET resultsPage == PageDescs(names, Len(repos))
              all == repos \o resultsPage
          IN /\ repos' = all
             /\ page' = page + 1
             /\ fetchLog' = Append(fetchLog, Fetched(Len(resultsPage), resultsPage))
             /\ IF Len(resultsPage) < per_page
                  THEN ghRepos' = Dedup(all) /\ pc' = "getRepos returned"
                  ELSE UNCHANGED <<ghRepos, pc>>
             /\ UNCHANGED failure
     \/ /\ fetchLog' = Append(fetchLog, Fetched(-1, <<>>))
        /\ Raise("discovery")
        /\ ghRepos' = Dedup(repos)
        /\ pc' = "getRepos returned"
        /\ UNCHANGED <<repos, page>>
  /\ UNCHANGED <<max_changes, analyses, cloneSt, elements, cur, budgetVars,
                 rlVars, remoteLog, started, outVars>>

GetPageStopsOnFull(pages) ==
  /\ pc = "getPage"
  /\ \E names \in pages :
       LET resultsPage == PageDescs(names, Len(repos))
           all == repos \o resultsPage
       IN /\ repos' = all
          /\ page' = page + 1
          /\ fetchLog' = Append(fetchLog, Fetched(Len(resultsPage), resultsPage))
          /\ ghRepos' = Dedup(all)
          /\ pc' = "getRepos returned"
  /\ UNCHANGED <<max_changes, analyses, failure, cloneSt, elements, cur, budgetVars,
                 rlVars, remoteLog, started, outVars>>

\* getRepos: one turn of the paging loop, the listing answering with one of
\* `pages` or failing; after the last page the de-duplication, and getRepos
\* returns
GetPageFrom(pages) ==
  /\ pc = "getPage"
  /\ \/ \E names \in pages :
          LET resultsPage == PageDescs(names, Len(repos))
              all == repos \o resultsPage
          IN /\ repos' = all
             /\ page' = page + 1
             /\ fetchLog' = Append(fetchLog, Fetched(Len(resultsPage), resultsPage))
             /\ IF Len(resultsPage) < per_page
                  THEN ghRepos' = Dedup(all) /\ pc' = "getRepos returned"
                  ELSE UNCHANGED <<ghRepos, pc>>
             /\ UNCHANGED <<outVars, failure>>
     \/ /\ fetchLog' = Append(fetchLog, Fetched(-1, <<>>))
        /\ Crash(elements)
        /\ Raise("discovery")
        /\ UNCHANGED discVars
  /\ UNCHANGED <<max_changes, analyses, cloneSt, elements, cur, budgetVars,
                 rlVars, remoteLog, started>>

GetPage == GetPageFrom(Pages)

\* existsSync(targetDir): 'repos' was emptied by Prepare, a directory in it
\* exists once a clone into it has begun
ExistsSync(dir) ==
  \E j \in 1..Len(cloneSt) :
     Dir(ghRepos[j].name) = dir /\ cloneSt[j] \in {"cloning", "ok", "failed"}

\* the reaction of lines 391-405 for ghRepos[j], j = k..n, given the chain
RECURSIVE CloneCalls(_, _)
CloneCalls(calls, k) ==
  IF k > Len(ghRepos) THEN calls
  ELSE IF ExistsSync(Dir(ghRepos[k].name)) THEN CloneCalls(calls, k + 1)
       ELSE CloneCalls(rateLimit(calls, now, CloneDelay, [kind |-> "clone", arg |-> k]),
                       k + 1)

\* _main, lines 387-407, up to the await: one promise per ghRepo; their
\* reactions run one after the other before any timer can fire
StartClones ==
  /\ pc = "getRepos returned"
  /\ pc' = "clone"
  /\ repos' = <<>>
  /\ cloneSt' = [j \in 1..Len(ghRepos) |->
                   IF ExistsSync(Dir(ghRepos[j].name)) THEN "opening" ELSE "waiting"]
  /\ rlCalls' = CloneCalls(rlCalls, 1)
  /\ UNCHANGED <<max_changes, fetchLog, analyses, failure, page, ghRepos, elements, cur,
                 budgetVars, now,
                 remoteLog, started, outVars>>

\* rateLimit(100) resolves for ghRepos[j]: nodegit.Clone.clone starts
CloneTimer ==
  /\ pc = "clone"
  /\ \E k \in 1..Len(rlCalls) :
       /\ rlCalls[k].who.kind = "clone"
       /\ RLFire(k)
       /\ cloneSt' = [cloneSt EXCEPT ![rlCalls[k].who.arg] = "cloning"]
  /\ UNCHANGED <<pc, max_changes, fetchLog, analyses, failure, discVars, elements, cur, budgetVars,
                 remoteLog, started, outVars>>

CloneSettleIncremental ==
  /\ pc = "clone"
  /\ \E j \in 1..Len(cloneSt) :
       /\ cloneSt[j] \in {"cloning", "opening"}
       /\ \/ /\ cloneSt' = [cloneSt EXCEPT ![j] = "ok"]
             /\ elements' = Append(elements, NewElement(ghRepos[j]))
             /\ IF \A i \in 1..Len(cloneSt) : cloneSt'[i] = "ok"
                  THEN pc' = "analyze" /\ analyses' = analyses + 1
                  ELSE UNCHANGED <<pc, analyses>>
             /\ UNCHANGED <<outVars, failure>>
          \/ /\ cloneSt' = [cloneSt EXCEPT ![j] = "failed"]
             /\ Crash(elements)
             /\ Raise("clone")
             /\ UNCHANGED <<elements, analyses>>
  /\ UNCHANGED <<max_changes, fetchLog, discVars, cur, budgetVars, rlVars,
                 remoteLog, started>>

\* a clone (or open) settles; Promise.all resolves with the last success and
\* _main appends all elements, or rejects with the first failure
CloneSettle ==
  /\ pc = "clone"
  /\ \E j \in 1..Len(cloneSt) :
       /\ cloneSt[j] \in {"cloning", "opening"}
       /\ \/ /\ cloneSt' = [cloneSt EXCEPT ![j] = "ok"]
             /\ IF \A i \in 1..Len(cloneSt) : cloneSt'[i] = "ok"
                  THEN /\ elements' = elements \o
                             [i \in 1..Len(ghRepos) |-> NewElement(ghRepos[i])]
                       /\ pc' = "analyze"
                       /\ analyses' = analyses + 1
                  ELSE UNCHANGED <<elements, pc, analyses>>
             /\ UNCHANGED <<outVars, failure>>
          \/ /\ cloneSt' = [cloneSt EXCEPT ![j] = "failed"]
             /\ Crash(elements)
             /\ Raise("clone")
             /\ UNCHANGED <<elements, analyses>>
  /\ UNCHANGED <<max_changes, fetchLog, discVars, cur, budgetVars, rlVars,
                 remoteLog, started>>

AnalyzeFailureIgnored ==
  /\ pc = "analyze"
  /\ \/ /\ elements' = SortByDir([i \in 1..Len(elements) |->
                                     [elements[i] EXCEPT !.analyzer = TRUE]])
        /\ UNCHANGED failure
     \/ /\ elements' = SortByDir(elements)
        /\ Raise("analysis")
  /\ cur' = 1
  /\ pc' = "loop"
  /\ UNCHANGED <<max_changes, fetchLog, analyses, discVars, cloneSt, budgetVars, rlVars,
                 remoteLog, started, outVars>>

\* analyzeRepos, then lines 411-416: attach the analyzer, sort by dir
Analyze ==
  /\ pc = "analyze"
  /\ \/ /\ elements' = SortByDir([i \in 1..Len(elements) |->
                                     [elements[i] EXCEPT !.analyzer = TRUE]])
        /\ cur' = 1
        /\ pc' = "loop"
        /\ UNCHANGED <<outVars, failure>>
     \/ Crash(elements) /\ Raise("analysis") /\ UNCHANGED <<elements, cur>>
  /\ UNCHANGED <<max_changes, fetchLog, analyses, discVars, cloneSt, budgetVars, rlVars,
                 remoteLog, started>>


\* ------------------------------------------------- transform + publish loop
Cur == elements[cur]

Started(step) == started' = started \cup {<<Cur.dir, step>>}

RemoteCall(op, dir, head, base, title, labels) ==
  [op |-> op, dir |-> dir, head |-> head, base |-> base,
   title |-> title, labels |-> labels]

LoopCatchSwallow(es) ==
  /\ pc' = "loop"
  /\ cur' = cur + 1
  /\ UNCHANGED outVars

\* the catch of lines 444-446 rethrows: _main rejects, main's catch runs
LoopCatch(es) ==
  /\ Crash(es)
  /\ cur' = cur

\* the loop is over: reportOnChangesMade, the summary line, main returns
LoopEnd ==
  /\ pc = "loop"
  /\ cur > Len(elements)
  /\ reported' = reportOnChangesMade(elements)
  /\ summary' = SummaryLine(elementsPushed, pushesDenied, max_changes)
  /\ exitCode' = 0
  /\ pc' = "done"
  /\ UNCHANGED <<max_changes, fetchLog, analyses, failure, discVars, cloneSt, elements,
                 cur, budgetVars,
                 rlVars, remoteLog, started>>

\* excludes.has(element.dir): continue
LoopSkip ==
  /\ pc = "loop"
  /\ cur <= Len(elements)
  /\ Cur.dir \in excludes
  /\ cur' = cur + 1
  /\ UNCHANGED <<pc, max_changes, fetchLog, analyses, failure, discVars, cloneSt, elements,
                 budgetVars,
                 rlVars, remoteLog, started, outVars>>

LoopBeginNoExclude ==
  /\ pc = "loop"
  /\ cur <= Len(elements)
  /\ pc' = "checkout"
  /\ Started("branch")
  /\ UNCHANGED <<max_changes, fetchLog, analyses, failure, discVars, cloneSt, elements, cur,
                 budgetVars, rlVars, remoteLog, outVars>>

\* the chain of lines 439-446 begins: checkoutNewBranch is called
LoopBegin ==
  /\ pc = "loop"
  /\ cur <= Len(elements)
  /\ Cur.dir \notin excludes
  /\ pc' = "checkout"
  /\ Started("branch")
  /\ UNCHANGED <<max_changes, fetchLog, analyses, failure, discVars, cloneSt, elements,
                 cur, budgetVars,
                 rlVars, remoteLog, outVars>>

\* checkoutNewBranch settles; on success rateLimit(0) is called
Checkout ==
  /\ pc = "checkout"
  /\ \/ /\ rlCalls' = rateLimit(rlCalls, now, LoopDelay, [kind |-> "loop", arg |-> cur])
        /\ pc' = "rateLimit"
        /\ UNCHANGED <<cur, outVars, failure>>
     \/ LoopCatch(elements) /\ Raise("checkout") /\ UNCHANGED rlCalls
  /\ UNCHANGED <<max_changes, fetchLog, analyses, discVars, cloneSt, elements, budgetVars, now,
                 remoteLog, started>>

\* rateLimit(0) resolves: cleanup(element) is called
LoopTimer ==
  /\ pc = "rateLimit"
  /\ \E k \in 1..Len(rlCalls) :
       /\ rlCalls[k].who.kind = "loop"
       /\ RLFire(k)
  /\ pc' = "cleanup"
  /\ Started("transform")
  /\ UNCHANGED <<max_changes, fetchLog, analyses, failure, discVars, cloneSt, elements,
                 cur, budgetVars,
                 remoteLog, outVars>>

\* cleanup(element) settles: the passes have decided dirty and needsReview;
\* on success pushChanges is called
Cleanup ==
  /\ pc = "cleanup"
  /\ \E d \in BOOLEAN, r \in BOOLEAN :
       /\ elements' = [elements EXCEPT ![cur].dirty = d, ![cur].needsReview = r]
       /\ \/ /\ pc' = "pushChanges"
             /\ Started("publish")
             /\ UNCHANGED <<cur, outVars, failure>>
          \/ LoopCatch(elements') /\ Raise("cleanup") /\ UNCHANGED started
  /\ UNCHANGED <<max_changes, fetchLog, analyses, discVars, cloneSt, budgetVars, rlVars, remoteLog>>

pushIsAllowedOffByOne(ret) ==
  /\ IF elementsPushed <= max_changes
       THEN elementsPushed' = elementsPushed + 1 /\ UNCHANGED pushesDenied /\ ret = TRUE
       ELSE pushesDenied' = pushesDenied + 1 /\ UNCHANGED elementsPushed /\ ret = FALSE
  /\ allowLog' = Append(allowLog, ret)

pushIsAllowedUncounted(ret) ==
  /\ IF elementsPushed < max_changes
       THEN elementsPushed' = elementsPushed + 1 /\ UNCHANGED pushesDenied /\ ret = TRUE
       ELSE UNCHANGED <<elementsPushed, pushesDenied>> /\ ret = FALSE
  /\ allowLog' = Append(allowLog, ret)

\* pushIsAllowed() returns ret
pushIsAllowed(ret) ==
  /\ IF elementsPushed < max_changes
       THEN elementsPushed' = elementsPushed + 1 /\ UNCHANGED pushesDenied /\ ret = TRUE
       ELSE pushesDenied' = pushesDenied + 1 /\ UNCHANGED elementsPushed /\ ret = FALSE
  /\ allowLog' = Append(allowLog, ret)

\* pushChanges returns without an outcome: the iteration is over
PushReturn ==
  /\ pc' = "loop"
  /\ cur' = cur + 1

\* lines 225-228
DeniedBranch ==
  /\ pushIsAllowed(FALSE)
  /\ elements' = [elements EXCEPT ![cur].pushDenied = TRUE]
  /\ PushReturn

AllowedBranchNotConsumed ==
  /\ elementsPushed < max_changes
  /\ allowLog' = Append(allowLog, TRUE)
  /\ pc' = "getRemote"
  /\ UNCHANGED <<elementsPushed, pushesDenied, elements, cur>>

\* lines 225-235: allowed, pushBranch is called and asks for the remote
AllowedBranch ==
  /\ pushIsAllowed(TRUE)
  /\ pc' = "getRemote"
  /\ UNCHANGED <<elements, cur>>

PushChangesNoDirtyCheck ==
  /\ pc = "pushChanges"
  /\ ~Cur.dirty
  /\ (DeniedBranch \/ AllowedBranch)
  /\ UNCHANGED <<max_changes, fetchLog, analyses, failure, discVars, cloneSt, rlVars,
                 remoteLog, started, outVars>>

\* pushChanges, lines 222-224
PushChangesNotDirty ==
  /\ pc = "pushChanges"
  /\ ~Cur.dirty
  /\ PushReturn
  /\ UNCHANGED <<max_changes, fetchLog, analyses, failure, discVars, cloneSt, elements,
                 budgetVars, rlVars,
                 remoteLog, started, outVars>>

PushChangesDeniedNoReturn ==
  /\ pc = "pushChanges"
  /\ Cur.dirty
  /\ pushIsAllowed(FALSE)
  /\ elements' = [elements EXCEPT ![cur].pushDenied = TRUE]
  /\ pc' = "getRemote"
  /\ UNCHANGED <<max_changes, fetchLog, analyses, failure, discVars, cloneSt, cur, rlVars,
                 remoteLog, started, outVars>>

\* pushChanges, lines 225-228
PushChangesDenied ==
  /\ pc = "pushChanges"
  /\ Cur.dirty
  /\ DeniedBranch
  /\ UNCHANGED <<max_changes, fetchLog, analyses, failure, discVars, cloneSt, rlVars,
                 remoteLog, started, outVars>>

\* pushChanges, lines 225-235
PushChangesAllowed ==
  /\ pc = "pushChanges"
  /\ Cur.dirty
  /\ AllowedBranch
  /\ UNCHANGED <<max_changes, fetchLog, analyses, failure, discVars, cloneSt, rlVars,
                 remoteLog, started, outVars>>

RemoteBranchNameMaster(e) == "master"

\* lines 229-232
RemoteBranchName(e) == IF e.needsReview THEN branchName ELSE "master"

PushCatchNoRethrow ==
  /\ elements' = [elements EXCEPT ![cur].pushFailed = TRUE, ![cur].pushSucceeded = TRUE]
  /\ pc' = "loop"
  /\ cur' = cur + 1
  /\ UNCHANGED outVars

PushCatchUnmarked ==
  /\ LoopCatch(elements)
  /\ UNCHANGED elements

\* the catch of lines 239-242
PushCatch ==
  /\ elements' = [elements EXCEPT ![cur].pushFailed = TRUE]
  /\ LoopCatch(elements')

\* line 243, and pushChanges returns
PushSucceed ==
  /\ elements' = [elements EXCEPT ![cur].pushSucceeded = TRUE]
  /\ pc' = "loop"
  /\ cur' = cur + 1
  /\ UNCHANGED outVars

\* pushBranch: getRemote("origin") settles; on success remote.push is called
GetRemote ==
  /\ pc = "getRemote"
  /\ \/ /\ remoteLog' = Append(remoteLog,
              RemoteCall("push", Cur.dir, branchName, RemoteBranchName(Cur), "", <<>>))
        /\ pc' = "push"
        /\ UNCHANGED <<elements, cur, outVars, failure>>
     \/ PushCatch /\ Raise("publish") /\ UNCHANGED remoteLog
  /\ UNCHANGED <<max_changes, fetchLog, analyses, discVars, cloneSt, budgetVars, rlVars, started>>

PushNoRateLimit ==
  /\ pc = "push"
  /\ \/ /\ Cur.needsReview
        /\ remoteLog' = Append(remoteLog,
              RemoteCall("pullRequests.create", Cur.dir, branchName, "master",
                         "Automatic cleanup!", <<>>))
        /\ pc' = "prCreate"
        /\ UNCHANGED <<elements, cur, outVars, failure>>
     \/ /\ ~Cur.needsReview
        /\ PushSucceed
        /\ UNCHANGED <<remoteLog, failure>>
     \/ PushCatch /\ Raise("publish") /\ UNCHANGED remoteLog
  /\ UNCHANGED <<max_changes, fetchLog, analyses, discVars, cloneSt, budgetVars, rlVars,
                 started>>

\* remote.push settles; on success either createPullRequest is called, which
\* calls rateLimit(5000), or the push has succeeded
Push ==
  /\ pc = "push"
  /\ \/ /\ Cur.needsReview
        /\ rlCalls' = rateLimit(rlCalls, now, PrDelay, [kind |-> "pr", arg |-> cur])
        /\ pc' = "prRateLimit"
        /\ UNCHANGED <<elements, cur, outVars, failure>>
     \/ /\ ~Cur.needsReview
        /\ PushSucceed
        /\ UNCHANGED <<rlCalls, failure>>
     \/ PushCatch /\ Raise("publish") /\ UNCHANGED rlCalls
  /\ UNCHANGED <<max_changes, fetchLog, analyses, discVars, cloneSt, budgetVars, now,
                 remoteLog, started>>

\* rateLimit(5000) resolves: github.pullRequests.create is called
PrTimer ==
  /\ pc = "prRateLimit"
  /\ \E k \in 1..Len(rlCalls) :
       /\ rlCalls[k].who.kind = "pr"
       /\ RLFire(k)
  /\ remoteLog' = Append(remoteLog,
        RemoteCall("pullRequests.create", Cur.dir, branchName, "master",
                   "Automatic cleanup!", <<>>))
  /\ pc' = "prCreate"
  /\ UNCHANGED <<max_changes, fetchLog, analyses, failure, discVars, cloneSt, elements,
                 cur, budgetVars,
                 started, outVars>>

\* pullRequests.create settles; on success github.issues.edit is called
PrCreate ==
  /\ pc = "prCreate"
  /\ \/ /\ remoteLog' = Append(remoteLog,
              RemoteCall("issues.edit", Cur.dir, "", "", "", <<"autogenerated">>))
        /\ pc' = "prEdit"
        /\ UNCHANGED <<elements, cur, outVars, failure>>
     \/ PushCatch /\ Raise("publish") /\ UNCHANGED remoteLog
  /\ UNCHANGED <<max_changes, fetchLog, analyses, discVars, cloneSt, budgetVars, rlVars, started>>

\* issues.edit settles
PrEdit ==
  /\ pc = "prEdit"
  /\ \/ PushSucceed /\ UNCHANGED failure
     \/ PushCatch /\ Raise("publish")
  /\ UNCHANGED <<max_changes, fetchLog, analyses, discVars, cloneSt, budgetVars, rlVars,
                 remoteLog, started>>

Next ==
  \/ Prepare \/ GetRoot \/ GetPage \/ StartClones \/ CloneTimer \/ CloneSettle
  \/ Analyze \/ LoopEnd \/ LoopSkip \/ LoopBegin \/ Checkout \/ LoopTimer
  \/ Cleanup \/ PushChangesNotDirty \/ PushChangesDenied \/ PushChangesAllowed
  \/ GetRemote \/ Push \/ PrTimer \/ PrCreate \/ PrEdit

Spec == Init /\ [][Next]_vars

\* every pending call of the run is eventually answered or fails, and every
\* timer eventually fires
FairSpec == Spec /\ WF_vars(Next)

\* ------------------------------------------- the rate limiter on its own
\* Callers call rateLimit at any time, with any delay; the clock ticks.
InitRate ==
  /\ pc = "rate"
  /\ max_changes = 0
  /\ repos = <<>>
  /\ page = 0
  /\ ghRepos = <<>>
  /\ cloneSt = <<>>
  /\ elements = <<>>
  /\ cur = 0
  /\ elementsPushed = 0
  /\ pushesDenied = 0
  /\ rlCalls = <<>>
  /\ now = 0
  /\ allowLog = <<>>
  /\ remoteLog = <<>>
  /\ started = {}
  /\ reported = <<>>
  /\ summary = <<>>
  /\ exitCode = -1
  /\ fetchLog = <<>>
  /\ analyses = 0
  /\ failure = "none"

nonRlVars == <<pc, max_changes, fetchLog, analyses, failure, discVars, cloneSt,
               elements, cur, budgetVars, remoteLog, started, outVars>>

RateCall ==
  /\ pc = "rate"
  /\ Len(rlCalls) < MaxCalls
  /\ \E d \in 0..MaxDelay :
       rlCalls' = rateLimit(rlCalls, now, d, [kind |-> "caller", arg |-> Len(rlCalls) + 1])
  /\ UNCHANGED <<now, nonRlVars>>

RateTimer ==
  /\ pc = "rate"
  /\ \E k \in 1..Len(rlCalls) : RLFire(k)
  /\ UNCHANGED nonRlVars

Tick ==
  /\ pc = "rate"
  /\ now < MaxTime
  /\ now' = now + 1
  /\ UNCHANGED <<rlCalls, nonRlVars>>

NextRate == RateCall \/ RateTimer \/ Tick

SpecRate == InitRate /\ [][NextRate]_vars

\* ------------------------------------------------ discovery on its own
\* getRepos against a listing of full pages: the organization's repositories
\* are ListingName(1), ListingName(2), ...; a page starts after the last
\* repository delivered, or repeats it, or repeats the previous page, and is
\* full or short.
ListingName(k) == 2000 + k

LastDelivered ==
  IF Len(repos) <= 1 THEN 0 ELSE repos[Len(repos)].name - ListingName(0)

PageStarts ==
  {LastDelivered, Max(LastDelivered - 1, 0),
   IF fetchLog = <<>> THEN 0 ELSE LastDelivered - fetchLog[Len(fetchLog)].len}

PageLengths ==
  (IF page < MaxFullPages THEN {per_page} ELSE {}) \cup {0, 1, 2, 49, 50, 99}

ListingPages ==
  {[i \in 1..n |-> ListingName(s + i)] : s \in PageStarts, n \in PageLengths}

GetListingPage == GetPageFrom(ListingPages)

NextDisc == Prepare \/ GetRoot \/ GetListingPage

\* every request to GitHub is answered or fails
SpecDisc == Init /\ [][NextDisc]_vars /\ WF_vars(NextDisc)

\* ------------------------------------------------------------------ claims
ElementIdx == 1..Len(elements)

Outcome(e) ==
  IF e.pushDenied THEN "denied"
  ELSE IF e.pushFailed THEN "failed"
  ELSE IF e.pushSucceeded THEN "succeeded"
  ELSE "unattempted"

Flags(e) == {f \in {"pushDenied", "pushFailed", "pushSucceeded"} : e[f]}

CallsFor(dir, op) ==
  {j \in 1..Len(remoteLog) : remoteLog[j].dir = dir /\ remoteLog[j].op = op}

PublishPcs == {"pushChanges", "getRemote", "push", "prRateLimit", "prCreate", "prEdit"}

\* C1: the first max_changes calls of pushIsAllowed return true and every
\* later call returns false, so it has returned true min(calls, max_changes)
\* times, and never when max_changes = 0.
C1_BudgetFirstMaxThenFalse ==
  /\ \A i \in 1..Len(allowLog) : allowLog[i] = (i <= max_changes)
  /\ Cardinality({i \in 1..Len(allowLog) : allowLog[i]}) = Min(Len(allowLog), max_changes)
  /\ elementsPushed = Min(Len(allowLog), max_changes)

C1_Witness ==
  /\ max_changes = 2
  /\ allowLog = <<TRUE, TRUE, FALSE>>

\* C2: no remote call (push, pull-request creation, edit) is ever issued for a
\* repository the budget denied, and with max_changes = 0 no remote call is
\* issued at all.
C2_DeniedNoRemoteCall ==
  /\ \A i \in ElementIdx :
       elements[i].pushDenied =>
          \A j \in 1..Len(remoteLog) : remoteLog[j].dir /= elements[i].dir
  /\ max_changes = 0 => remoteLog = <<>>

C2_Witness ==
  /\ pc = "done"
  /\ \E i \in ElementIdx : elements[i].pushDenied
  /\ remoteLog /= <<>>

\* C3: a repository that is not dirty has no outcome flag set, and the step of
\* pushChanges on a repository that is not dirty changes neither counter.
C3_NotDirtyUnattempted ==
  /\ [](\A i \in ElementIdx : ~elements[i].dirty => Flags(elements[i]) = {})
  /\ [][(pc = "pushChanges" /\ ~elements[cur].dirty)
          => (pc' = "loop" /\ UNCHANGED <<elementsPushed, pushesDenied>>)]_vars

C3_Witness ==
  /\ pc = "done"
  /\ \E i \in ElementIdx :
       /\ ~elements[i].dirty
       /\ <<elements[i].dir, "publish">> \in started
  /\ pushesDenied > 0

\* C4: at most one of pushDenied, pushFailed, pushSucceeded is set for a
\* repository, and a flag that is set stays set and stays the only one.
C4_OutcomeSetOnce ==
  /\ [](\A i \in ElementIdx : Cardinality(Flags(elements[i])) <= 1)
  /\ [][\A i \in ElementIdx : \A j \in 1..Len(elements') :
          (elements'[j].dir = elements[i].dir /\ Flags(elements[i]) /= {})
             => Flags(elements'[j]) = Flags(elements[i])]_vars

C4_Witness ==
  /\ pc = "exited"
  /\ \E i, j \in ElementIdx :
       /\ elements[i].pushSucceeded
       /\ elements[j].pushFailed

\* the dirty repositories for which pushChanges has made its decision
PublishDecided ==
  {i \in ElementIdx :
      /\ elements[i].dirty
      /\ \/ i < cur
         \/ i = cur /\ elements[i].pushFailed}

\* C5: when no publish step is in progress, elementsPushed + pushesDenied is
\* the number of dirty repositories for which pushChanges has decided.
C5_CountersSumToDecided ==
  pc \notin PublishPcs =>
     elementsPushed + pushesDenied = Cardinality(PublishDecided)

C5_Witness ==
  /\ pc = "done"
  /\ elementsPushed = 1
  /\ pushesDenied = 1
  /\ \E i \in ElementIdx : ~elements[i].dirty /\ elements[i].dir \notin excludes

\* C6: every push of a repository goes from the working branch to the branch
\* of the same name when the repository needs review and to master when it
\* does not; a repository that does not need review gets no pull request; a
\* repository that needs review and was published got exactly one push, one
\* pull request with the fixed title from the working branch into master, and
\* one edit that attaches one label.
C6_ReviewRouting ==
  \A i \in ElementIdx :
    LET e     == elements[i]
        push  == CallsFor(e.dir, "push")
        pr    == CallsFor(e.dir, "pullRequests.create")
        edit  == CallsFor(e.dir, "issues.edit")
    IN /\ \A j \in push :
            /\ remoteLog[j].head = branchName
            /\ remoteLog[j].base = IF e.needsReview THEN branchName ELSE "master"
       /\ \A j \in pr :
            /\ remoteLog[j].head = branchName
            /\ remoteLog[j].base = "master"
            /\ remoteLog[j].title = "Automatic cleanup!"
       /\ \A j \in edit : Len(remoteLog[j].labels) = 1
       /\ Cardinality(pr) <= 1
       /\ ~e.needsReview => pr = {} /\ edit = {}
       /\ e.pushSucceeded =>
            /\ Cardinality(push) = 1
            /\ e.needsReview => Cardinality(pr) = 1 /\ Cardinality(edit) = 1

C6_Witness ==
  /\ pc = "done"
  /\ \E i, j \in ElementIdx :
       /\ elements[i].pushSucceeded /\ elements[i].needsReview
       /\ elements[j].pushSucceeded /\ ~elements[j].needsReview

\* C7: in the chain of rateLimit calls the timer of a call is set only after
\* the previous call has resolved, the calls resolve in call order, each no
\* sooner than its delay after its timer was set, and when the first k calls
\* all ask for the delay d the k-th resolves no sooner than k*d after the
\* first call was made.
C7_RateSerialized ==
  \A k \in 1..Len(rlCalls) :
    LET c == rlCalls[k]
    IN /\ (k > 1 /\ c.st /= "chained") =>
            /\ rlCalls[k - 1].st = "resolved"
            /\ c.startT >= rlCalls[k - 1].doneT
       /\ c.st = "resolved" =>
            /\ c.doneT >= c.startT + c.delay
            /\ k > 1 => rlCalls[k - 1].doneT <= c.doneT
            /\ \A d \in 0..MaxDelay :
                 (\A j \in 1..k : rlCalls[j].delay = d)
                    => c.doneT >= rlCalls[1].callT + k * d

C7_Witness ==
  /\ pc = "rate"
  /\ Len(rlCalls) = 3
  /\ \A k \in 1..3 :
       /\ rlCalls[k].callT = 0
       /\ rlCalls[k].delay = 1
       /\ rlCalls[k].st = "resolved"

FirstIndex(rs, name) ==
  CHOOSE i \in 1..Len(rs) :
     rs[i].name = name /\ \A j \in 1..(i - 1) : rs[j].name /= name

\* C8: when getRepos returns, its result holds every fetched name exactly
\* once, the descriptor kept for a name is the first one fetched with that
\* name, and the kept descriptors are in the order in which they were fetched.
C8_DedupFirstSeen ==
  pc = "getRepos returned" =>
     /\ \A i, j \in 1..Len(ghRepos) : ghRepos[i].name = ghRepos[j].name => i = j
     /\ {ghRepos[i].name : i \in 1..Len(ghRepos)} = {repos[i].name : i \in 1..Len(repos)}
     /\ \A i \in 1..Len(ghRepos) : ghRepos[i] = repos[FirstIndex(repos, ghRepos[i].name)]
     /\ \A i, j \in 1..Len(ghRepos) : i < j => ghRepos[i].id < ghRepos[j].id
     /\ ghRepos[1] = repos[1]

C8_Witness ==
  /\ pc = "getRepos returned"
  /\ Len(repos) = 4
  /\ Len(ghRepos) = 2
  /\ repos[3].name = RootName

FailedAt(k) ==
  /\ pc = "exited"
  /\ cur = k
  /\ <<elements[k].dir, "transform">> \in started

StartedFor(dir) == \E st \in started : st[1] = dir

Listed(dir) ==
  \E g \in 1..Len(reported) :
     \E m \in 1..Len(reported[g].dirs) : reported[g].dirs[m] = dir

ListedUnder(dir, message) ==
  \E g \in 1..Len(reported) :
     /\ reported[g].message = message
     /\ \E m \in 1..Len(reported[g].dirs) : reported[g].dirs[m] = dir

OutcomeMessage(o) ==
  IF o = "denied" THEN "Elements that would have been pushed:"
  ELSE IF o = "succeeded" THEN "Elements pushed successfully:"
  ELSE "Elements that I tried to push that FAILED:"

\* C9 as stated: when the transform or publish step of the k-th repository
\* has raised, the process has exited with code 1, no step was started for a
\* later repository, and every repository processed before the k-th appears in
\* the report.
C9_Original ==
  \A k \in ElementIdx :
    FailedAt(k) =>
       /\ exitCode = 1
       /\ \A j \in ElementIdx : j > k => ~StartedFor(elements[j].dir)
       /\ \A j \in ElementIdx :
            (j < k /\ elements[j].dir \notin excludes) => Listed(elements[j].dir)

\* C9, amended: when the transform or publish step of the k-th repository has
\* raised, the process has exited with code 1 at that repository, no step was
\* started for a later repository, the step that ends the run leaves every
\* earlier repository as it was, and every earlier repository whose outcome
\* is denied or succeeded is listed in the report under that outcome (one
\* that was left unattempted is not listed).
C9_FailureIsolation ==
  /\ [](\A k \in ElementIdx :
          (FailedAt(k) \/ elements[k].pushFailed) =>
             /\ pc = "exited"
             /\ cur = k
             /\ exitCode = 1
             /\ \A j \in ElementIdx : j > k => ~StartedFor(elements[j].dir)
             /\ \A j \in ElementIdx : j < k =>
                  IF Outcome(elements[j]) = "unattempted"
                    THEN ~Listed(elements[j].dir)
                    ELSE ListedUnder(elements[j].dir, OutcomeMessage(Outcome(elements[j]))))
  /\ [][pc' = "exited" => \A j \in 1..(cur - 1) : elements'[j] = elements[j]]_vars

C9_Witness ==
  /\ \E k \in ElementIdx :
       /\ FailedAt(k)
       /\ \E i \in 1..(k - 1) : elements[i].pushSucceeded
       /\ \E j \in (k + 1)..Len(elements) : elements[j].dir \notin excludes

NumDirty     == Cardinality({i \in ElementIdx : elements[i].dirty})
NumSucceeded == Cardinality({i \in ElementIdx : elements[i].pushSucceeded})
NumDenied    == Cardinality({i \in ElementIdx : elements[i].pushDenied})

\* C10: a run that completes with N dirty repositories, none of which needs
\* review, and max_changes = M ends with min(N, M) repositories succeeded,
\* N - min(N, M) denied and exit code 0; with N = 3 and M = 1 the summary line
\* is "Successfully pushed to 1 repos. 2 remain."
C10_BudgetSplit ==
  (pc = "done" /\ \A i \in ElementIdx : elements[i].dirty => ~elements[i].needsReview) =>
     /\ NumSucceeded = Min(NumDirty, max_changes)
     /\ NumDenied = NumDirty - Min(NumDirty, max_changes)
     /\ exitCode = 0
     /\ (NumDirty = 3 /\ max_changes = 1) =>
           summary = <<"Successfully pushed to ", 1, " repos. ", 2, " remain.">>

C10_Witness ==
  /\ pc = "done"
  /\ NumDirty = 3
  /\ max_changes = 1
  /\ \A i \in ElementIdx : ~elements[i].needsReview
  /\ NumSucceeded = 1
  /\ NumDenied = 2

\* the steps the loop has begun for the element at position i
StepsOf(i) == {st[2] : st \in {s \in started : s[1] = elements[i].dir}}

\* the loop is done with the element at position i
Finished(i) ==
  \/ elements[i].dir \in excludes
  \/ /\ StepsOf(i) = {"branch", "transform", "publish"}
     /\ (elements[i].dirty => elements[i].pushDenied \/ elements[i].pushSucceeded)

\* C11: the transform-and-publish phase takes the repositories one at a time
\* in ascending directory order: once the loop runs, elements is sorted by
\* dir, steps have begun only for elements up to the current one, every
\* element before the current one is finished (so no two repositories have a
\* step in progress at once), and within a repository branch creation comes
\* before the transform and the transform before the publish.
C11_SequentialAscending ==
  /\ cur = 0 => started = {}
  /\ cur >= 1 =>
       /\ \A i \in ElementIdx : \A j \in ElementIdx :
             i < j => DirCompare(elements[i], elements[j]) < 0
       /\ \A i \in ElementIdx :
             /\ StepsOf(i) /= {} => i <= cur
             /\ i < cur => Finished(i)
             /\ "publish" \in StepsOf(i) => "transform" \in StepsOf(i)
             /\ "transform" \in StepsOf(i) => "branch" \in StepsOf(i)

\* discovery returned 4 before 3; both were published, 3 first
C11_Witness ==
  /\ pc = "cleanup"
  /\ Cur.dir = Dir(4)
  /\ \E i \in 1..Len(ghRepos) : \E j \in 1..Len(ghRepos) :
        i < j /\ ghRepos[i].name = 4 /\ ghRepos[j].name = 3
  /\ \E i \in ElementIdx :
        elements[i].dir = Dir(3) /\ "publish" \in StepsOf(i) /\ i < cur

\* the remote calls a successful publish of e consists of have all been made
PublishCallsMade(e) ==
  /\ CallsFor(e.dir, "push") /= {}
  /\ e.needsReview => /\ CallsFor(e.dir, "pullRequests.create") /= {}
                      /\ CallsFor(e.dir, "issues.edit") /= {}

\* C12: for a dirty repository that was allowed to publish: when the push
\* and, if it needs review, the pull-request creation and edit all succeed it
\* is marked succeeded; when any of them fails it is marked failed, is never
\* marked succeeded, and the failure is re-raised so that the batch halts
\* there with exit code 1.
C12_PublishOutcome ==
  /\ failure = "publish" => Cur.pushFailed
  /\ \A i \in ElementIdx :
       LET e == elements[i] IN
       /\ (e.dirty /\ ~e.pushDenied /\ i < cur) =>
             e.pushSucceeded /\ ~e.pushFailed /\ PublishCallsMade(e)
       /\ e.pushSucceeded => e.dirty /\ ~e.pushFailed /\ PublishCallsMade(e)
       /\ e.pushFailed =>
             /\ e.dirty /\ ~e.pushSucceeded
             /\ i = cur /\ pc = "exited" /\ exitCode = 1 /\ failure = "publish"
             /\ \A j \in ElementIdx : j > i => StepsOf(j) = {}

\* the second publish failed at the pull request, after the first succeeded
C12_Witness ==
  /\ pc = "exited"
  /\ failure = "publish"
  /\ Cur.pushFailed /\ Cur.needsReview
  /\ CallsFor(Cur.dir, "pullRequests.create") /= {}
  /\ \E i \in 1..(cur - 1) : elements[i].pushSucceeded
  /\ \E j \in (cur + 1)..Len(elements) : elements[j].dir \notin excludes

\* the position of the repository checked out at dir in what getRepos returned
DiscoveryIndex(dir) == FirstIndex(ghRepos, dir[2])

OutcomeFlag(message) ==
  IF message = OutcomeMessage("denied") THEN "pushDenied"
  ELSE IF message = OutcomeMessage("succeeded") THEN "pushSucceeded"
  ELSE "pushFailed"

\* C13 as stated: the members of each printed group are in the order in which
\* getRepos returned their repositories.
C13_Original ==
  \A g \in 1..Len(reported) :
     \A m \in 1..Len(reported[g].dirs) : \A n \in 1..Len(reported[g].dirs) :
        m < n => DiscoveryIndex(reported[g].dirs[m]) < DiscoveryIndex(reported[g].dirs[n])

\* C13: the report prints, for each outcome with at least one member, one
\* group that holds the directory of every element with that outcome exactly
\* once, in ascending directory order (the order elements was sorted into
\* before the loop), whatever order getRepos returned the repositories in.
C13_ReportInDirOrder ==
  \A g \in 1..Len(reported) :
     LET dirs == reported[g].dirs
         flag == OutcomeFlag(reported[g].message)
     IN /\ dirs /= <<>>
        /\ \A m \in 1..Len(dirs) : \A n \in 1..Len(dirs) : m < n => dirs[m][2] < dirs[n][2]
        /\ {dirs[m] : m \in 1..Len(dirs)} =
              {elements[i].dir : i \in {j \in ElementIdx : elements[j][flag]}}

\* getRepos returned 4 before 3, both were pushed, the report lists 3 first
C13_Witness ==
  /\ pc = "done"
  /\ \E g \in 1..Len(reported) :
        /\ reported[g].message = OutcomeMessage("succeeded")
        /\ reported[g].dirs = <<Dir(3), Dir(4)>>
  /\ DiscoveryIndex(Dir(4)) < DiscoveryIndex(Dir(3))

\* the pages received so far, one after the other
RECURSIVE FetchedNames(_)
FetchedNames(k) ==
  IF k = 0 THEN <<>>
  ELSE FetchedNames(k - 1) \o (IF fetchLog[k].len >= 0 THEN fetchLog[k].names ELSE <<>>)

NamesOf(rs) == {rs[i].name : i \in 1..Len(rs)}

C14_Paging ==
  /\ \A k \in 1..Len(fetchLog) :
        /\ fetchLog[k].page = k - 1
        /\ k < Len(fetchLog) => fetchLog[k].len = per_page
  /\ pc = "getPage" => \A k \in 1..Len(fetchLog) : fetchLog[k].len = per_page
  /\ pc \in {"getPage", "getRepos returned"} =>
        /\ [i \in 1..Len(repos) |-> repos[i].name] = <<RootName>> \o FetchedNames(Len(fetchLog))
        /\ \A i \in 1..Len(repos) : repos[i].id = i
  /\ pc = "getRepos returned" =>
        /\ fetchLog /= <<>>
        /\ fetchLog[Len(fetchLog)].len \in 0..(per_page - 1)
        /\ Len(ghRepos) = Cardinality(NamesOf(repos))
        /\ Cardinality(NamesOf(ghRepos)) = Len(ghRepos)
        /\ ( /\ [k \in 1..Len(fetchLog) |-> fetchLog[k].len] = <<100, 50>>
             /\ Cardinality(NamesOf(repos) \ {RootName}) = 150 )
           => Len(ghRepos) = 151

\* C14: the paging loop asks for consecutive page numbers, appends each page
\* in fetch order, goes on only while every page so far was full, returns
\* right after the first page shorter than per_page without another request,
\* and so ends for a listing of finitely many full pages; 150 organization
\* repositories delivered as pages of 100 and 50 give 151 descriptors, no
\* name twice.
C14_PagingTerminates ==
  /\ []C14_Paging
  /\ <>(pc \in {"getRepos returned", "exited"})

\* pages of 100 and 50 with 150 different names
C14_Witness ==
  /\ pc = "getRepos returned"
  /\ [k \in 1..Len(fetchLog) |-> fetchLog[k].len] = <<100, 50>>
  /\ Cardinality(NamesOf(repos) \ {RootName}) = 150
  /\ Len(ghRepos) = 151

\* C15: analyzeRepos is called at most once, exactly once in a run that
\* completes, and only when every clone has completed and one element per
\* repository exists; no branch creation, transform or publish begins before
\* the analysis has succeeded and its result is attached to every element;
\* when the analysis fails no step of the loop ever begins.
C15_PhaseOrdering ==
  /\ analyses <= 1
  /\ pc = "done" => analyses = 1
  /\ pc \in {"init", "getRoot", "getPage", "getRepos returned", "clone"} => analyses = 0
  /\ analyses = 1 =>
        /\ Len(cloneSt) = Len(ghRepos)
        /\ \A j \in 1..Len(cloneSt) : cloneSt[j] = "ok"
        /\ Len(elements) = Len(ghRepos)
  /\ pc = "analyze" => started = {} /\ \A i \in ElementIdx : ~elements[i].analyzer
  /\ started /= {} => analyses = 1 /\ \A i \in ElementIdx : elements[i].analyzer
  /\ failure = "analysis" =>
        pc = "exited" /\ started = {} /\ remoteLog = <<>> /\ exitCode = 1

\* three repositories were cloned and analyzed, the second one's transform
\* is under way
C15_Witness ==
  /\ pc = "cleanup"
  /\ cur = 2
  /\ Len(elements) = 3
  /\ analyses = 1
  /\ \A i \in ElementIdx : elements[i].analyzer

\* C16: when the request for the root repository or for an organization page
\* fails, getRepos returns nothing: no clone or open is started, no element
\* is created, the report prints no group, and the process exits with code 1.
C16_NoPartialDiscovery ==
  failure = "discovery" =>
     /\ pc = "exited"
     /\ ghRepos = <<>>
     /\ cloneSt = <<>>
     /\ rlCalls = <<>>
     /\ elements = <<>>
     /\ analyses = 0
     /\ started = {}
     /\ reported = <<>>
     /\ exitCode = 1

\* the root repository was fetched, the request for a page failed
C16_Witness ==
  /\ failure = "discovery"
  /\ repos /= <<>>
  /\ fetchLog /= <<>>
  /\ fetchLog[Len(fetchLog)].len = -1
  /\ pc = "exited"

\* the rateLimit(5000) of createPullRequest for the element at position i has
\* been called and has resolved, no sooner than 5000 after the call
PrWaitOver(i) ==
  \E k \in 1..Len(rlCalls) :
     /\ rlCalls[k].who = [kind |-> "pr", arg |-> i]
     /\ rlCalls[k].delay = PrDelay
     /\ rlCalls[k].st = "resolved"
     /\ rlCalls[k].doneT >= rlCalls[k].callT + PrDelay

\* C17: for each repository at most one remote push is issued and at most one
\* pull request is created; the pull request is created only after the
\* repository's push has succeeded and a rateLimit wait is over, and the edit
\* that sets assignee and labels is issued only after the creation succeeded.
C17_PublishCallOrder ==
  /\ \A j \in 1..Len(remoteLog) : \E i \in ElementIdx : elements[i].dir = remoteLog[j].dir
  /\ \A i \in ElementIdx :
       LET dir      == elements[i].dir
           pushes   == CallsFor(dir, "push")
           creates  == CallsFor(dir, "pullRequests.create")
           edits    == CallsFor(dir, "issues.edit")
           inFlight == i = cur /\ pc \in {"getRemote", "push", "prRateLimit"}
       IN /\ Cardinality(pushes) <= 1
          /\ Cardinality(creates) <= 1
          /\ Cardinality(edits) <= 1
          /\ creates /= {} =>
                /\ \E p \in pushes : \A c \in creates : p < c
                /\ elements[i].needsReview
                /\ PrWaitOver(i)
                /\ ~inFlight
          /\ edits /= {} =>
                /\ \E c \in creates : \A e \in edits : c < e
                /\ ~(inFlight \/ (i = cur /\ pc = "prCreate"))

\* two repositories went through push, wait, creation and edit
C17_Witness ==
  /\ pc = "done"
  /\ Cardinality({i \in ElementIdx :
        /\ CallsFor(elements[i].dir, "issues.edit") /= {}
        /\ PrWaitOver(i)}) = 2

\* C18: an element whose directory is in excludes never has a branch
\* created, is never transformed and never published: it has no begun step,
\* dirty and needsReview are unset, it has no outcome flag, no remote call and
\* no rateLimit call of the loop is made for it, and the counters of
\* pushIsAllowed count dirty elements outside excludes only.
C18_ExcludedUntouched ==
  /\ \A i \in ElementIdx :
        elements[i].dir \in excludes =>
           /\ StepsOf(i) = {}
           /\ ~elements[i].dirty /\ ~elements[i].needsReview
           /\ Flags(elements[i]) = {}
           /\ Outcome(elements[i]) = "unattempted"
           /\ \A j \in 1..Len(remoteLog) : remoteLog[j].dir /= elements[i].dir
           /\ cur >= 1 => \A k \in 1..Len(rlCalls) :
                             rlCalls[k].who.kind \in {"loop", "pr"} => rlCalls[k].who.arg /= i
           /\ ~(i = cur /\ pc \in PublishPcs \cup {"checkout", "rateLimit", "cleanup"})
  /\ elementsPushed + pushesDenied <=
        Cardinality({i \in ElementIdx : elements[i].dir \notin excludes /\ elements[i].dirty})

\* 'polymer' and 'paper-listbox' were skipped while one other repository was
\* pushed and one was denied
C18_Witness ==
  /\ pc = "done"
  /\ \E i \in ElementIdx : elements[i].dir = Dir(RootName)
  /\ \E i \in ElementIdx : elements[i].dir = Dir(ListboxName)
  /\ elementsPushed = 1
  /\ pushesDenied = 1

Ended == pc \in {"done", "exited"}

\* C19 as stated: the exit code is 0 exactly when no discovery, clone,
\* analysis, transform or publish step failed.
C19_Original ==
  Ended => (exitCode = 0 <=>
              failure \notin {"discovery", "clone", "analysis", "cleanup", "publish"})

C19_ExitCode ==
  /\ Ended <=> exitCode /= -1
  /\ failure /= "none" => pc = "exited"
  /\ pc = "done" => exitCode = 0 /\ failure = "none"
  /\ pc = "exited" => exitCode = 1 /\ failure /= "none"
  /\ Ended => reported = reportOnChangesMade(elements)

\* C19: when every external call eventually returns or fails, every run
\* ends; when it has ended the report has been produced from the elements,
\* on the normal and on the failure path; the exit code is 0 exactly when no
\* step of the run failed (preparation of the workspace and the user fetch,
\* discovery, clone, analysis, branch creation, transform, publish), and 1
\* otherwise, the run ending at the first failure.
C19_TerminatesWithReport ==
  /\ []C19_ExitCode
  /\ <>Ended

\* the run ended with exit code 1 on a failed branch creation, after the
\* report listed an earlier repository
C19_Witness ==
  /\ pc = "exited"
  /\ failure = "checkout"
  /\ exitCode = 1
  /\ reported /= <<>>

\* pushChanges has been allowed for the element at position i and its push
\* or pull request has not settled yet
PushInProgress(i) ==
  i = cur /\ pc \in {"getRemote", "push", "prRateLimit", "prCreate", "prEdit"}

PushAttempted ==
  {i \in ElementIdx :
      elements[i].pushSucceeded \/ elements[i].pushFailed \/ PushInProgress(i)}

\* C20: the budget is consumed when pushChanges decides to push and is never
\* given back: elementsPushed is the number of elements whose push was
\* attempted (succeeded, failed, or in progress), so the number of succeeded
\* elements is at most elementsPushed, which is at most max_changes, and
\* elementsPushed never decreases.
C20_BudgetConsumedAtDecision ==
  /\ [](/\ elementsPushed = Cardinality(PushAttempted)
        /\ NumSucceeded <= elementsPushed
        /\ elementsPushed <= max_changes)
  /\ [][elementsPushed' >= elementsPushed]_vars

\* one push succeeded, the next one failed: both count
C20_Witness ==
  /\ pc = "exited"
  /\ max_changes = 2
  /\ elementsPushed = 2
  /\ NumSucceeded = 1
  /\ \E i \in ElementIdx : elements[i].pushFailed

AllClonesOk ==
  /\ Len(cloneSt) = Len(ghRepos)
  /\ \A j \in 1..Len(cloneSt) : cloneSt[j] = "ok"

\* C21: the clone phase fills elements all-or-nothing: elements is empty
\* until every clone has succeeded and then receives one element per
\* repository in a single step; when any clone fails, elements stays empty
\* (the elements of the successful clones are never appended), the report
\* lists nothing and the process exits with code 1, whatever state the other
\* clones are in.
C21_CloneAllOrNothing ==
  /\ [](/\ pc \in {"init", "getRoot", "getPage", "getRepos returned", "clone"} =>
              elements = <<>>
        /\ elements /= <<>> =>
              /\ AllClonesOk
              /\ Len(elements) = Len(ghRepos)
              /\ {elements[i].ghRepo : i \in ElementIdx} =
                    {ghRepos[j] : j \in 1..Len(ghRepos)}
        /\ (\E j \in 1..Len(cloneSt) : cloneSt[j] = "failed") <=> failure = "clone"
        /\ failure = "clone" =>
              /\ pc = "exited"
              /\ elements = <<>>
              /\ analyses = 0
              /\ reported = <<>>
              /\ exitCode = 1)
  /\ [][(elements = <<>> /\ elements' /= <<>>) =>
           /\ pc = "clone"
           /\ Len(elements') = Len(ghRepos)
           /\ \A j \in 1..Len(cloneSt) : cloneSt'[j] = "ok"]_vars

\* one clone failed after another had succeeded and while a third was still
\* in progress
C21_Witness ==
  /\ failure = "clone"
  /\ pc = "exited"
  /\ \E j \in 1..Len(cloneSt) : cloneSt[j] = "ok"
  /\ \E j \in 1..Len(cloneSt) : cloneSt[j] = "cloning"
  /\ elements = <<>>

=============================================================================
